---------------------------- MODULE Spec2Model ----------------------------
(***************************************************************************)
(* A model of expressions/expressions.py: the expression classes, their    *)
(* operator overloads and rendering, the explicit-stack post-order visitor *)
(* postvisitor, and the single-dispatch differentiation rules.             *)
(*                                                                         *)
(* Python values are records with a "type" field (the value's class).      *)
(* An Expression object also carries "id", its object identity: the        *)
(* visited dict of postvisitor hashes and compares Expression objects by   *)
(* identity, since no class defines __eq__ or __hash__.                    *)
(***************************************************************************)
EXTENDS Integers, Sequences, FiniteSets, TLC

VARIABLES
    expr,      \* postvisitor's argument expr (the root)
    fn,        \* postvisitor's argument fn: "differentiate" or "counting_step"
    var,       \* kwargs["var"], None when kwargs is empty
    stack,     \* postvisitor's local stack, top at the end
    visited,   \* postvisitor's local dict visited: object id -> result
    pc,        \* "loop" | "done" | "raised" (postvisitor); "build" | "rendered"
    ret,       \* the value postvisitor returned, None before
    err,       \* the exception that left postvisitor, None before
    nextId,    \* identity of the next object to be constructed
    calls,     \* log of the fn invocations of the running call
    round,     \* 1 for the call on the input, k + 1 for the call on the
               \* result of call k
    input,     \* the expression the first call was made on
    built,     \* the expressions constructed and not yet made operands
    out        \* the string str(expr) returned

vars == <<expr, fn, var, stack, visited, pc, ret, err, nextId, calls, round,
          input, built, out>>

\* ------------------------------------------------------------- bounds
MaxNodes == 3      \* distinct node objects of an input DAG
MaxRounds == 2     \* consecutive differentiations of one input
MaxOps == 2        \* operator nodes of a rendered tree

\* ------------------------------------------------------ Python values
None == [type |-> "NoneType"]
PyFloat(v) == [type |-> "float", v |-> v]
PyInt(v) == [type |-> "int", v |-> v]
PyString(v) == [type |-> "str", v |-> v]

OperatorTypes == {"Add", "Sub", "Mul", "Div", "Pow"}
TerminalTypes == {"Number", "Symbol"}

\* isinstance(v, Expression)
IsExpression(v) == v.type \in OperatorTypes \cup TerminalTypes

\* isinstance(v, numbers.Number)
IsNumber(v) == v.type \in {"int", "float"}

\* Number(value): identity id; Terminal.__init__ leaves operands empty
Number(value, id) ==
    [type |-> "Number", id |-> id, operands |-> <<>>, value |-> value]

\* Symbol(value)
Symbol(value, id) ==
    [type |-> "Symbol", id |-> id, operands |-> <<>>, value |-> value]

\* cls(left, right) for an Operator subclass cls
Operator(cls, id, left, right) ==
    [type |-> cls, id |-> id, operands |-> <<left, right>>]

\* The result of an evaluation that constructs objects: the value and the
\* identity the next constructed object will get.
Made(val, next) == [val |-> val, next |-> next]

NotImplemented == [type |-> "NotImplementedType"]

\* Expression.__add__, __sub__, __mul__, __truediv__, __pow__: self is the
\* left operand; a bare number is lifted to Number first.
Forward(cls, self, other, n) ==
    IF IsExpression(other)
    THEN Made(Operator(cls, n, self, other), n + 1)
    ELSE IF IsNumber(other)
    THEN Made(Operator(cls, n + 1, self, Number(other, n)), n + 2)
    ELSE Made(NotImplemented, n)

\* Expression.__radd__, __rsub__, __rmul__, __rtruediv__, __rpow__: self is
\* the right operand.
Reflected(cls, self, other, n) ==
    IF IsExpression(other)
    THEN Made(Operator(cls, n, other, self), n + 1)
    ELSE IF IsNumber(other)
    THEN Made(Operator(cls, n + 1, Number(other, n), self), n + 2)
    ELSE Made(NotImplemented, n)

\* float arithmetic on the whole-valued floats the rules produce
FloatOp(cls, a, b) ==
    CASE cls = "Add" -> PyFloat(a.v + b.v)
      [] cls = "Sub" -> PyFloat(a.v - b.v)
      [] cls = "Mul" -> PyFloat(a.v * b.v)

\* a <op> b as Python evaluates it: the left operand's method if the left
\* operand is an Expression, the right operand's reflected method if only the
\* right one is, float arithmetic between two floats.
Binary(cls, a, b, n) ==
    IF IsExpression(a) THEN Forward(cls, a, b, n)
    ELSE IF IsExpression(b) THEN Reflected(cls, b, a, n)
    ELSE Made(FloatOp(cls, a, b), n)

\* ----------------------------------------------------------- rendering
precedence(e) ==
    CASE e.type \in {"Add", "Sub"} -> 0
      [] e.type \in {"Mul", "Div"} -> 1
      [] e.type = "Pow" -> 2
      [] e.type \in TerminalTypes -> 3

symbol(e) ==
    CASE e.type = "Add" -> "+"
      [] e.type = "Sub" -> "-"
      [] e.type = "Mul" -> "*"
      [] e.type = "Div" -> "/"
      [] e.type = "Pow" -> "^"

\* str(value) of a Terminal's value: a str is itself, an int its digits, a
\* whole float its digits followed by ".0"
PyStr(value) ==
    CASE value.type = "str" -> value.v
      [] value.type = "int" -> ToString(value.v)
      [] value.type = "float" -> ToString(value.v) \o ".0"

\* the comparison written <= instead of <
NeedsParenthesesOrEqual(operand, self) ==
    precedence(operand) <= precedence(self)

\* operand.precedence < self.precedence
NeedsParentheses(operand, self) == precedence(operand) < precedence(self)

RECURSIVE Str(_)
\* Terminal.__str__ and Operator.__str__
Str(e) ==
    IF e.type \in TerminalTypes THEN PyStr(e.value)
    ELSE LET parentheses(operand) ==
                 IF NeedsParentheses(operand, e)
                 THEN "(" \o Str(operand) \o ")"
                 ELSE Str(operand)
         IN parentheses(e.operands[1]) \o " " \o symbol(e) \o " "
                \o parentheses(e.operands[2])

\* ------------------------------------------------------ differentiation
\* A rule's outcome when it raises instead of returning.
Raised(exc, msg) == [exc |-> exc, msg |-> msg]

\* the constant rule returning a Number node instead of a float
differentiate_Number_Node(e, o, v, n) == Made(Number(PyFloat(0), n), n + 1)

\* @differentiate.register(Number)
differentiate_Number(e, o, v, n) == Made(PyFloat(0), n)

\* @differentiate.register(Symbol)
differentiate_Symbol(e, o, v, n) ==
    Made(IF e.value = v THEN PyFloat(1) ELSE PyFloat(0), n)

\* @differentiate.register(Add)
differentiate_Add(e, o, v, n) == Binary("Add", o[1], o[2], n)

\* the product rule with each derivative multiplied by its own operand
differentiate_Mul_Swapped(e, o, v, n) ==
    LET t1 == Binary("Mul", o[1], e.operands[1], n)
        t2 == Binary("Mul", o[2], e.operands[2], t1.next)
    IN Binary("Add", t1.val, t2.val, t2.next)

\* @differentiate.register(Mul)
differentiate_Mul(e, o, v, n) ==
    LET t1 == Binary("Mul", o[1], e.operands[2], n)
        t2 == Binary("Mul", o[2], e.operands[1], t1.next)
    IN Binary("Add", t1.val, t2.val, t2.next)

\* the quotient rule with + for - in the numerator
differentiate_Div_Plus(e, o, v, n) ==
    LET t1 == Binary("Mul", o[1], e.operands[2], n)
        t2 == Binary("Mul", e.operands[1], o[2], t1.next)
        t3 == Binary("Add", t1.val, t2.val, t2.next)
        t4 == Binary("Pow", e.operands[2], PyInt(2), t3.next)
    IN Binary("Div", t3.val, t4.val, t4.next)

\* @differentiate.register(Div)
differentiate_Div(e, o, v, n) ==
    LET t1 == Binary("Mul", o[1], e.operands[2], n)
        t2 == Binary("Mul", e.operands[1], o[2], t1.next)
        t3 == Binary("Sub", t1.val, t2.val, t2.next)
        t4 == Binary("Pow", e.operands[2], PyInt(2), t3.next)
    IN Binary("Div", t3.val, t4.val, t4.next)

\* @differentiate.register(Pow)
differentiate_Pow(e, o, v, n) ==
    LET t1 == Binary("Mul", o[1], e.operands[2], n)
        t2 == Binary("Sub", e.operands[2], PyInt(1), t1.next)
        t3 == Binary("Pow", e.operands[1], t2.val, t2.next)
    IN Binary("Mul", t1.val, t3.val, t3.next)

\* a default that returns 0.0 instead of raising
differentiate_default_Zero(e, o, v, n) == Made(PyFloat(0), n)

\* the function singledispatch decorates: the rule of every class no rule is
\* registered for
differentiate_default(e, o, v, n) ==
    Raised("NotImplementedError", "Cannot differentiate " \o e.type)

\* the singledispatch function differentiate: the rule registered for the
\* class of e, the default for a class with none
differentiate(e, o, v, n) ==
    CASE e.type = "Number" -> differentiate_Number(e, o, v, n)
      [] e.type = "Symbol" -> differentiate_Symbol(e, o, v, n)
      [] e.type = "Add" -> differentiate_Add(e, o, v, n)
      [] e.type = "Mul" -> differentiate_Mul(e, o, v, n)
      [] e.type = "Div" -> differentiate_Div(e, o, v, n)
      [] e.type = "Pow" -> differentiate_Pow(e, o, v, n)
      [] OTHER -> differentiate_default(e, o, v, n)

\* ----------------------------------------------------------- postvisitor
\* the loop's unvisited_children: the operands of e that are not keys of
\* visited, in operand order, an operand that occupies two slots twice
unvisited_children(e, vis) ==
    SelectSeq(e.operands, LAMBDA o : o.id \notin DOMAIN vis)

\* the arguments taken in reverse operand order
VisitedOperandsReversed(e, vis) ==
    [j \in 1..Len(e.operands) |->
        vis[e.operands[Len(e.operands) + 1 - j].id]]

\* the arguments *(visited[o] for o in e.operands)
VisitedOperands(e, vis) ==
    [j \in 1..Len(e.operands) |-> vis[e.operands[j].id]]

\* fn(e, *o, **kwargs) for the two functions the model passes as fn:
\* differentiate, and a caller's step that counts its own invocations and
\* returns the count
CallFn(f, e, o, v, n, log) ==
    IF f = "differentiate" THEN differentiate(e, o, v, n)
    ELSE Made(PyInt(Len(log) + 1), n)

\* the node pushed back without its unvisited operands
PushedWithoutOperands(rest, e, uc) == rest \o <<e>>

\* stack.append(e); stack.extend(unvisited_children)
Pushed(rest, e, uc) == rest \o <<e>> \o uc

\* visited[e] = result
Stored(vis, e, result) ==
    [i \in DOMAIN vis \cup {e.id} |-> IF i = e.id THEN result ELSE vis[i]]

Top == stack[Len(stack)]
Popped == SubSeq(stack, 1, Len(stack) - 1)

\* a loop iteration that finds unvisited operands
Expand ==
    /\ pc = "loop"
    /\ stack # <<>>
    /\ LET uc == unvisited_children(Top, visited)
       IN /\ uc # <<>>
          /\ stack' = Pushed(Popped, Top, uc)
    /\ UNCHANGED <<expr, fn, var, visited, pc, ret, err, nextId, calls,
                   round, input, built, out>>

\* a loop iteration that finds none, with fn returning
Visit ==
    /\ pc = "loop"
    /\ stack # <<>>
    /\ unvisited_children(Top, visited) = <<>>
    /\ LET o == VisitedOperands(Top, visited)
           r == CallFn(fn, Top, o, var, nextId, calls)
       IN /\ "exc" \notin DOMAIN r
          /\ visited' = Stored(visited, Top, r.val)
          /\ nextId' = r.next
          /\ calls' = Append(calls, [e |-> Top, args |-> o, result |-> r.val])
    /\ stack' = Popped
    /\ UNCHANGED <<expr, fn, var, pc, ret, err, round, input, built, out>>

\* a loop iteration that finds none, with fn raising: the exception is
\* caught nowhere and leaves postvisitor
VisitRaises ==
    /\ pc = "loop"
    /\ stack # <<>>
    /\ unvisited_children(Top, visited) = <<>>
    /\ LET o == VisitedOperands(Top, visited)
           r == CallFn(fn, Top, o, var, nextId, calls)
       IN /\ "exc" \in DOMAIN r
          /\ err' = r
    /\ stack' = Popped
    /\ pc' = "raised"
    /\ UNCHANGED <<expr, fn, var, visited, ret, nextId, calls, round, input,
                   built, out>>

\* the loop's exit: return visited[expr]
Return ==
    /\ pc = "loop"
    /\ stack = <<>>
    /\ ret' = visited[expr.id]
    /\ pc' = "done"
    /\ UNCHANGED <<expr, fn, var, stack, visited, err, nextId, calls, round,
                   input, built, out>>

\* the caller differentiates the returned expression again: a new call of
\* postvisitor with a new stack and a new visited
Again ==
    /\ pc = "done"
    /\ fn = "differentiate"
    /\ round < MaxRounds
    /\ IsExpression(ret)
    /\ expr' = ret
    /\ stack' = <<ret>>
    /\ visited' = <<>>
    /\ calls' = <<>>
    /\ ret' = None
    /\ round' = round + 1
    /\ pc' = "loop"
    /\ UNCHANGED <<fn, var, err, nextId, input, built, out>>

\* ------------------------------------------------------------- inputs
Names == {PyString("x"), PyString("y")}
Terminals == {[type |-> "Symbol", value |-> PyString("x")],
              [type |-> "Symbol", value |-> PyString("y")],
              [type |-> "Number", value |-> PyInt(3)]}

\* what the i-th constructed object of an input can be: a terminal, or an
\* operator over two objects constructed before it
Constructions(i) ==
    Terminals \cup
    [type : OperatorTypes, left : 1..(i - 1), right : 1..(i - 1)]

RECURSIVE Programs(_)
\* the sequences of n constructions
Programs(n) ==
    IF n = 0 THEN {<<>>}
    ELSE {Append(p, c) : p \in Programs(n - 1), c \in Constructions(n)}

RECURSIVE Object(_, _)
\* the i-th object of construction sequence p; its identity is i
Object(p, i) ==
    IF p[i].type = "Number" THEN Number(p[i].value, i)
    ELSE IF p[i].type = "Symbol" THEN Symbol(p[i].value, i)
    ELSE Operator(p[i].type, i, Object(p, p[i].left), Object(p, p[i].right))

RECURSIVE Nodes(_)
\* the node objects reachable from e
Nodes(e) ==
    {e} \cup UNION {Nodes(e.operands[j]) : j \in 1..Len(e.operands)}

Ids(e) == {m.id : m \in Nodes(e)}

RECURSIVE PostOrder(_, _)
\* seen, followed by the identities of the objects reachable from e and not in
\* seen, each after its operands, the left operand's before the right one's
PostOrder(e, seen) ==
    IF \E k \in 1..Len(seen) : seen[k] = e.id THEN seen
    ELSE IF e.operands = <<>> THEN Append(seen, e.id)
    ELSE Append(PostOrder(e.operands[2], PostOrder(e.operands[1], seen)),
                e.id)

\* the input DAGs: the last object of a construction sequence all of whose
\* objects it reaches. Identities carry no order, so of the sequences that
\* differ only in the order of construction one is taken: the one that
\* constructs operands before their parent, left before right.
Inputs ==
    UNION {{Object(p, n) : p \in {q \in Programs(n) :
                PostOrder(Object(q, n), <<>>) = [k \in 1..n |-> k]}}
           : n \in 1..MaxNodes}

Init ==
    /\ expr \in Inputs
    /\ \/ fn = "differentiate" /\ var \in Names
       \/ fn = "counting_step" /\ var = None
    /\ stack = <<expr>>
    /\ visited = <<>>
    /\ pc = "loop"
    /\ ret = None
    /\ err = None
    /\ nextId = Cardinality(Ids(expr)) + 1
    /\ calls = <<>>
    /\ round = 1
    /\ input = expr
    /\ built = <<>>
    /\ out = ""

Next == Expand \/ Visit \/ VisitRaises \/ Return \/ Again

Spec == Init /\ [][Next]_vars

\* one call of postvisitor with a step function that always returns
InitStep == Init /\ fn = "counting_step"

NextStep == Expand \/ Visit \/ Return

\* the loop runs on: no iteration is postponed for ever
FairSpec == InitStep /\ [][NextStep]_vars /\ WF_vars(NextStep)

\* ------------------------------------------------- rendering, as a run
RenderLeaves == {[type |-> "Symbol", value |-> PyString("x")],
                 [type |-> "Symbol", value |-> PyString("y")],
                 [type |-> "Symbol", value |-> PyString("z")],
                 [type |-> "Number", value |-> PyFloat(1)]}

RECURSIVE Operators(_)
\* how many Operator objects e holds
Operators(e) ==
    IF e.operands = <<>> THEN 0
    ELSE 1 + Operators(e.operands[1]) + Operators(e.operands[2])

RECURSIVE OperatorsIn(_)
OperatorsIn(seq) ==
    IF seq = <<>> THEN 0
    ELSE Operators(seq[1]) + OperatorsIn(SubSeq(seq, 2, Len(seq)))

InitStr ==
    /\ expr = None
    /\ fn = "str"
    /\ var = PyString("x")
    /\ stack = <<>>
    /\ visited = <<>>
    /\ pc = "build"
    /\ ret = None
    /\ err = None
    /\ nextId = 1
    /\ calls = <<>>
    /\ round = 1
    /\ input = None
    /\ built = <<>>
    /\ out = ""

\* Number(value) or Symbol(value): a new terminal object. A terminal is
\* constructed only while the operators left suffice to combine all that is
\* built into one expression.
NewTerminal ==
    /\ pc = "build"
    /\ OperatorsIn(built) + Len(built) <= MaxOps
    /\ \E t \in RenderLeaves :
          built' = Append(built, [type |-> t.type, id |-> nextId,
                                  operands |-> <<>>, value |-> t.value])
    /\ nextId' = nextId + 1
    /\ UNCHANGED <<expr, fn, var, stack, visited, pc, ret, err, calls, round,
                   input, out>>

\* cls(left, right): a new operator object over the two expressions built
\* last
NewOperator ==
    /\ pc = "build"
    /\ Len(built) >= 2
    /\ \E cls \in OperatorTypes :
          built' = Append(SubSeq(built, 1, Len(built) - 2),
                          Operator(cls, nextId, built[Len(built) - 1],
                                   built[Len(built)]))
    /\ nextId' = nextId + 1
    /\ UNCHANGED <<expr, fn, var, stack, visited, pc, ret, err, calls, round,
                   input, out>>

\* str(expr) of the one expression built
Render ==
    /\ pc = "build"
    /\ Len(built) = 1
    /\ expr' = built[1]
    /\ out' = Str(built[1])
    /\ pc' = "rendered"
    /\ UNCHANGED <<fn, var, stack, visited, ret, err, nextId, calls, round,
                   input, built>>

NextStr == NewTerminal \/ NewOperator \/ Render

SpecStr == InitStr /\ [][NextStr]_vars

\* ===================================================================
\* The claims
\* ===================================================================
HasType(e, types) == \E m \in Nodes(e) : m.type \in types
HasSub(e) == HasType(e, {"Sub"})
HasDivPow(e) == HasType(e, {"Div", "Pow"})
OnlyTypes(e, types) == \A m \in Nodes(e) : m.type \in types

\* how many invocations of fn on the object of identity i the running call
\* has made
CallsOn(i) == Cardinality({k \in 1..Len(calls) : calls[k].e.id = i})

\* an object that occupies more than one operand slot under the root
HasSharing(e) ==
    \E m1 \in Nodes(e), m2 \in Nodes(e) :
        \E j1 \in 1..Len(m1.operands), j2 \in 1..Len(m2.operands) :
            /\ <<m1.id, j1>> # <<m2.id, j2>>
            /\ m1.operands[j1].id = m2.operands[j2].id

SubError == Raised("NotImplementedError", "Cannot differentiate Sub")

\* C1: one call of postvisitor invokes fn exactly once for each distinct
\* node object reachable from the root: never twice while it runs, and once
\* for each when it has returned.
C1_StepOncePerNode ==
    /\ \A i \in Ids(expr) : CallsOn(i) <= 1
    /\ pc = "done" => \A i \in Ids(expr) : CallsOn(i) = 1

\* C2: every invocation of fn on a node comes after an invocation on each of
\* its operands, finds each operand's result in visited, and is passed these
\* cached results in operand order.
C2_OperandsFirst ==
    [][(calls' # calls /\ calls' # <<>>) =>
         LET c == calls'[Len(calls')]
         IN \A j \in 1..Len(c.e.operands) :
               /\ \E k \in 1..Len(calls) : calls[k].e.id = c.e.operands[j].id
               /\ c.e.operands[j].id \in DOMAIN visited
               /\ c.args[j] = visited[c.e.operands[j].id]
               /\ Len(c.args) = Len(c.e.operands)]_vars

C2_Witness ==
    /\ calls # <<>>
    /\ LET c == calls[Len(calls)]
       IN /\ Len(c.e.operands) = 2
          /\ c.e.operands[1].id # c.e.operands[2].id
          /\ c.args[1] # c.args[2]

\* C3: with a step function that always returns, postvisitor terminates: the
\* stack becomes empty, visited then holds an entry for the root, and the
\* value returned is the result of the invocation of fn on the root.
C3_Terminates ==
    (pc = "loop")
        ~> (/\ pc = "done"
            /\ stack = <<>>
            /\ expr.id \in DOMAIN visited
            /\ ret = visited[expr.id]
            /\ calls # <<>>
            /\ calls[Len(calls)].e.id = expr.id
            /\ ret = calls[Len(calls)].result)

C3_Witness ==
    /\ pc = "done"
    /\ fn = "counting_step"
    /\ HasSharing(expr)
    /\ HasSub(expr)

\* C4: differentiating an expression from whose root a Sub node is reachable
\* never returns a result; a call that ends by an exception ends with
\* NotImplementedError naming Sub, which nothing catches: nothing runs after
\* it; no other input raises.
C4_SubRaises ==
    fn = "differentiate" =>
        /\ HasSub(expr) => (pc # "done" /\ ret = None)
        /\ pc = "raised" => (HasSub(expr) /\ err = SubError /\ ret = None)
        /\ pc # "raised" => err = None
        /\ pc = "raised" => ~ENABLED Next

C4_Witness ==
    /\ fn = "differentiate"
    /\ round = 1
    /\ pc = "raised"
    /\ expr.type \in {"Add", "Mul", "Div", "Pow"}
    /\ HasSub(expr)
    /\ calls # <<>>

\* C5 as stated: differentiation returns a plain number, 0.0 or 1.0, only
\* for a bare terminal, and an Expression for every operator root.
C5_Original ==
    (fn = "differentiate" /\ pc = "done") =>
        /\ IsNumber(ret) =>
              (expr.type \in TerminalTypes /\ ret \in {PyFloat(0), PyFloat(1)})
        /\ expr.type \in OperatorTypes => IsExpression(ret)

\* C5 as amended: differentiation returns a plain float exactly when every
\* node reachable from the root is a Number, a Symbol or an Add, and an
\* Expression node otherwise, so for every root that is a Mul, Div or Pow.
C5_PlainIffSumOfTerminals ==
    (fn = "differentiate" /\ pc = "done") =>
        /\ IsNumber(ret) <=> OnlyTypes(expr, {"Number", "Symbol", "Add"})
        /\ IsNumber(ret) => ret.type = "float"
        /\ ~IsNumber(ret) => IsExpression(ret)
        /\ expr.type \in {"Mul", "Div", "Pow"} => IsExpression(ret)

C5_Witness ==
    /\ fn = "differentiate"
    /\ pc = "done"
    /\ round = 1
    /\ expr.type = "Add"
    /\ ret = PyFloat(2)

\* d, as the product and the sum take it: itself if it is an Expression,
\* lifted to a Number node if it is a plain number
IsLifted(node, d) ==
    IF IsNumber(d) THEN node.type = "Number" /\ node.value = d
    ELSE node = d

IsMulXX(e) ==
    /\ e.type = "Mul"
    /\ e.operands[1].id = e.operands[2].id
    /\ e.operands[1].type = "Symbol"
    /\ e.operands[1].value = PyString("x")

\* C6: the rule for Mul(a, b) returns Add(Mul(da, b), Mul(db, a)), a and b
\* being the node's own operands and da, db the results passed in, a plain
\* number lifted to a Number in the left slot; the derivative of Mul(x, x)
\* by x renders as "1.0 * x + 1.0 * x".
C6_ProductRule ==
    /\ \A k \in 1..Len(calls) :
          (fn = "differentiate" /\ calls[k].e.type = "Mul") =>
              LET a == calls[k].e.operands[1]
                  b == calls[k].e.operands[2]
                  da == calls[k].args[1]
                  db == calls[k].args[2]
                  r == calls[k].result
              IN /\ r.type = "Add"
                 /\ r.operands[1].type = "Mul"
                 /\ IsLifted(r.operands[1].operands[1], da)
                 /\ r.operands[1].operands[2] = b
                 /\ r.operands[2].type = "Mul"
                 /\ IsLifted(r.operands[2].operands[1], db)
                 /\ r.operands[2].operands[2] = a
    /\ (/\ fn = "differentiate"
        /\ pc = "done"
        /\ IsMulXX(expr)
        /\ var = PyString("x"))
          =>Str(ret) = "1.0 * x + 1.0 * x"

C6_Witness ==
    /\ fn = "differentiate"
    /\ pc = "done"
    /\ var = PyString("x")
    /\ IsMulXX(expr)
    /\ Str(ret) = "1.0 * x + 1.0 * x"

\* The claim's own tables for C7.
Level(e) ==
    CASE e.type \in {"Add", "Sub"} -> 0
      [] e.type \in {"Mul", "Div"} -> 1
      [] e.type = "Pow" -> 2
      [] OTHER -> 3

Sign(e) ==
    CASE e.type = "Add" -> " + "
      [] e.type = "Sub" -> " - "
      [] e.type = "Mul" -> " * "
      [] e.type = "Div" -> " / "
      [] e.type = "Pow" -> " ^ "

LeafText(e) == IF e.type = "Symbol" THEN e.value.v ELSE "1.0"

RECURSIVE Flat(_)
\* the leaves and operator signs of e from left to right
Flat(e) ==
    IF e.operands = <<>> THEN LeafText(e)
    ELSE Flat(e.operands[1]) \o Sign(e) \o Flat(e.operands[2])

RECURSIVE Prefix(_)
\* e in constructor form
Prefix(e) ==
    IF e.operands = <<>> THEN LeafText(e)
    ELSE e.type \o "(" \o Prefix(e.operands[1]) \o ","
             \o Prefix(e.operands[2]) \o ")"

RECURSIVE LowerSlots(_)
\* the operand slots in e whose operand is of a lower level than its parent
LowerSlots(e) ==
    IF e.operands = <<>> THEN 0
    ELSE LowerSlots(e.operands[1]) + LowerSlots(e.operands[2])
         + Cardinality({j \in 1..2 : Level(e.operands[j]) < Level(e)})

Count(s, ch) == Cardinality({i \in 1..Len(s) : SubSeq(s, i, i) = ch})

RECURSIVE Unparenthesized(_)
Unparenthesized(s) ==
    IF s = "" THEN ""
    ELSE (IF SubSeq(s, 1, 1) \in {"(", ")"} THEN "" ELSE SubSeq(s, 1, 1))
         \o Unparenthesized(SubSeq(s, 2, Len(s)))

\* C7: str() of an operator node is 'left symbol right', an operand in
\* parentheses if and only if its level is strictly lower than its parent's:
\* the string holds one pair of parentheses for each such operand slot and
\* none else, also not around the right operand of Sub or Div.
C7_MinimalParentheses ==
    pc = "rendered" =>
        /\ Unparenthesized(out) = Flat(expr)
        /\ Count(out, "(") = LowerSlots(expr)
        /\ Count(out, ")") = LowerSlots(expr)
        /\ expr.operands # <<>> =>
              LET wrapped(o) == IF Level(o) < Level(expr)
                                THEN "(" \o Str(o) \o ")" ELSE Str(o)
              IN out = wrapped(expr.operands[1]) \o Sign(expr)
                          \o wrapped(expr.operands[2])
        /\ Prefix(expr) = "Sub(x,Sub(y,z))" => out = "x - y - z"
        /\ Prefix(expr) = "Mul(Add(x,y),z)" => out = "(x + y) * z"
        /\ Prefix(expr) = "Add(Mul(x,y),z)" => out = "x * y + z"
        /\ Prefix(expr) = "Div(x,Div(y,z))" => out = "x / y / z"

C7_Witness ==
    /\ pc = "rendered"
    /\ Prefix(expr) = "Mul(Add(x,y),z)"
    /\ out = "(x + y) * z"

\* C8: within one call of postvisitor, a result stored in visited is never
\* recomputed or overwritten.
C8_StoredOnce ==
    [][round' = round =>
         \A i \in DOMAIN visited :
             i \in DOMAIN visited' /\ visited'[i] = visited[i]]_vars

\* C9: neither visited nor the stack ever holds more entries than there are
\* distinct node objects reachable from the root.
C9_BoundedByNodes ==
    pc = "loop" =>
        /\ Cardinality(DOMAIN visited) <= Cardinality(Ids(expr))
        /\ Len(stack) <= Cardinality(Ids(expr))

SixTypes == {"Number", "Symbol", "Add", "Mul", "Div", "Pow"}

\* C10: for an input of Number, Symbol, Add, Mul, Div and Pow nodes the first
\* differentiation does not raise; if a Div or Pow is reachable its result
\* holds a Sub node and differentiating that result ends with the dispatch
\* error and never returns; if none is, the result holds no Sub node.
C10_NotClosed ==
    (fn = "differentiate" /\ OnlyTypes(input, SixTypes)) =>
        /\ round = 1 => pc # "raised"
        /\ (round = 1 /\ pc = "done" /\ HasDivPow(input)) =>
              (IsExpression(ret) /\ HasSub(ret))
        /\ (round = 1 /\ pc = "done" /\ ~HasDivPow(input)) =>
              (IsExpression(ret) => ~HasSub(ret))
        /\ (round = 2 /\ HasDivPow(input)) =>
              /\ HasSub(expr)
              /\ pc # "done"
              /\ pc = "raised" => err = SubError

C10_Witness ==
    /\ fn = "differentiate"
    /\ round = 2
    /\ pc = "raised"
    /\ err = SubError
    /\ OnlyTypes(input, SixTypes)
    /\ HasDivPow(input)

=============================================================================
